---- MODULE Spec2Model ----
(***************************************************************************)
(* Model of autopr/repos/completions_repo.py: the completions repository   *)
(* (CompletionsRepo.complete), its two OpenAI formatters with their        *)
(* tenacity retry policy, and the get_completions_repo factory.            *)
(*                                                                         *)
(* Texts are strings.  Exception messages are sequences of words, so that  *)
(* the substring test of complete's except clause is a real containment    *)
(* test.  An Optional argument is <<>> for None and <<v>> for a value v.   *)
(* Temperatures are in tenths (8 stands for 0.8).                          *)
(***************************************************************************)
EXTENDS Integers, Sequences, FiniteSets, TLC

VARIABLES
    pc,            \* position: "start", "ready", "config_error", "_complete", "warn", "reraise", "done"
    factoryArgs,   \* the arguments get_completions_repo was called with
    repo,          \* the constructed repository (its fields), or NoRepo
    factoryError,  \* the ValueError get_completions_repo raised, or NoException
    sections_stack,\* publish_service.sections_stack
    updates,       \* the messages published through publish_service.publish_update
    pubLog,        \* the calls made on publish_service, in order
    stack0,        \* sections_stack as it was when complete was called
    args,          \* the arguments complete was called with
    locals,        \* complete's locals after the defaults and the token budget
    attempt_number,\* tenacity's attempt number inside the retrying _complete
    submissions,   \* number of requests submitted upstream in this call
    failures,      \* number of retryable errors the upstream raised in this call
    request,       \* the last request submitted upstream, or NoRequest
    upstream,      \* what the upstream did with the last request
    caught,        \* the exception complete's except clause is handling
    outcome        \* how complete ended: its return value or the exception raised

vars == <<pc, factoryArgs, repo, factoryError, sections_stack, updates, pubLog,
          stack0, args, locals, attempt_number, submissions, failures, request,
          upstream, caught, outcome>>

(***************************************************************************)
(* Bounds of the model                                                     *)
(***************************************************************************)
MaxPromptLen == 3
MaxExamples == 2
MaxDepth == 3
MaxCfgTokens == 2
MaxContextLimit == 2

(***************************************************************************)
(* Program constants                                                       *)
(***************************************************************************)
StopAfterAttempt == 8
DefaultMinTokens == 1000
DefaultTemperature == 8

None == <<>>
Some(v) == <<v>>

Min(a, b) == IF a <= b THEN a ELSE b

DefaultSystemPrompt == "You are a helpful assistant."

(***************************************************************************)
(* Input domains                                                           *)
(***************************************************************************)
RECURSIVE PromptOfLen(_)
PromptOfLen(n) == IF n = 0 THEN "" ELSE PromptOfLen(n - 1) \o "p"

Prompts == {PromptOfLen(n) : n \in 0..MaxPromptLen}

SystemPrompts == {None, Some("S")}

ExampleAt(i) == <<"a" \o ToString(i), "b" \o ToString(i)>>

ExamplesOfLen(n) == [i \in 1..n |-> ExampleAt(i)]

ExampleArgs == {None} \cup {Some(ExamplesOfLen(n)) : n \in 0..MaxExamples}

TemperatureArgs == {None, Some(5)}

ModelNames == {"gpt-4", "gpt-3.5-turbo", "text-davinci-003", "unknown-model"}

SectionStacks == {[i \in 1..d |-> IF i = 1 THEN "root" ELSE "section"] : d \in 1..MaxDepth}

(***************************************************************************)
(* Exceptions                                                              *)
(***************************************************************************)
NoException == [cls |-> "NoException", msg |-> <<>>, id |-> 0, wraps |-> <<>>]

Exc(cls, msg, id) == [cls |-> cls, msg |-> msg, id |-> id, wraps |-> <<>>]

GenericMsg == <<"request", "failed">>
ModelMissingMsg == <<"The", "model:", "'gpt-4'", "does", "not", "exist">>
OtherModelMsg == <<"The", "model:", "'gpt-5'", "does", "not", "exist">>

\* the needle of complete's except clause; a backquote of the source is written ' here
Gpt4DoesNotExist == <<"'gpt-4'", "does", "not", "exist">>

\* needle in hay, for texts given as word sequences
Contains(needle, hay) ==
    \E i \in 1..(Len(hay) - Len(needle) + 1) :
        SubSeq(hay, i, i + Len(needle) - 1) = needle

\* the exception classes openai_retry_if_union retries on
RetryableClasses ==
    {"Timeout", "APIError", "APIConnectionError", "RateLimitError",
     "ServiceUnavailableError"}

openai_retry_if_union(e) == e.cls \in RetryableClasses

\* what the upstream client may raise: class and message
UpstreamErrors ==
    [cls : RetryableClasses, msg : {GenericMsg}]
    \cup [cls : {"InvalidRequestError"}, msg : {ModelMissingMsg, OtherModelMsg, GenericMsg}]
    \cup [cls : {"AuthenticationError"}, msg : {GenericMsg, ModelMissingMsg}]

(***************************************************************************)
(* The factory                                                             *)
(***************************************************************************)
OpenAIChatCompletionsRepo_models_gpt4only == <<"gpt-4">>

OpenAIChatCompletionsRepo_models == <<"gpt-4", "gpt-3.5-turbo">>

OpenAICompletionsRepo_models == <<"text-davinci-003">>

Range(s) == {s[i] : i \in 1..Len(s)}

\* CompletionsRepo.__subclasses__(), in definition order
repo_implementations ==
    << [name |-> "OpenAIChatCompletionsRepo", models |-> OpenAIChatCompletionsRepo_models],
       [name |-> "OpenAICompletionsRepo", models |-> OpenAICompletionsRepo_models] >>

NoRepo ==
    [variant |-> "None", model |-> "", max_tokens |-> 0, min_tokens |-> 0,
     context_limit |-> 0, temperature |-> 0]

\* CompletionsRepo.__init__
NewRepo(variant, model, max_tokens, min_tokens, context_limit, temperature) ==
    [variant |-> variant, model |-> model, max_tokens |-> max_tokens,
     min_tokens |-> min_tokens, context_limit |-> context_limit,
     temperature |-> temperature]

\* the loop of get_completions_repo: the first implementation, in order,
\* whose models contain the model; "None" when the loop runs out
RECURSIVE FindImplementation(_, _)
FindImplementation(model, impls) ==
    IF impls = <<>> THEN "None"
    ELSE IF model \in Range(Head(impls).models) THEN Head(impls).name
    ELSE FindImplementation(model, Tail(impls))

NotImplementedMessage(model) == "Model " \o model \o " not implemented"

NoArgs == [model |-> "", max_tokens |-> 0, min_tokens |-> 0, context_limit |-> 0, temperature |-> 0]

NoCall == [prompt |-> "", system_prompt |-> None, examples |-> None, temperature |-> None]

NoLocals == [system_prompt |-> "", examples |-> <<>>, temperature |-> 0, length |-> 0, max_tokens |-> 0]

NoRequest ==
    [endpoint |-> "none", model |-> "", messages |-> <<>>, prompt |-> "",
     temperature |-> 0, max_tokens |-> 0]

NoUpstream == [kind |-> "none", err |-> NoException, resp |-> [pytype |-> "NoneType", value |-> [repr |-> "None"]]]

NoOutcome == [kind |-> "none", value |-> "", exc |-> NoException]

Init ==
    /\ pc = "start"
    /\ factoryArgs = NoArgs
    /\ repo = NoRepo
    /\ factoryError = NoException
    /\ sections_stack \in SectionStacks
    /\ updates = <<>>
    /\ pubLog = <<>>
    /\ stack0 = <<>>
    /\ args = NoCall
    /\ locals = NoLocals
    /\ attempt_number = 0
    /\ submissions = 0
    /\ failures = 0
    /\ request = NoRequest
    /\ upstream = NoUpstream
    /\ caught = NoException
    /\ outcome = NoOutcome

get_completions_repo(model, max_tokens, min_tokens, context_limit, temperature) ==
    /\ pc = "start"
    /\ factoryArgs' = [model |-> model, max_tokens |-> max_tokens, min_tokens |-> min_tokens,
                       context_limit |-> context_limit, temperature |-> temperature]
    /\ LET impl == FindImplementation(model, repo_implementations) IN
        IF impl # "None"
        THEN /\ repo' = NewRepo(impl, model, max_tokens, min_tokens, context_limit, temperature)
             /\ pc' = "ready"
             /\ UNCHANGED factoryError
        ELSE /\ factoryError' = Exc("ValueError", <<NotImplementedMessage(model)>>, 0)
             /\ pc' = "config_error"
             /\ UNCHANGED repo
    /\ UNCHANGED <<sections_stack, updates, pubLog, stack0, args, locals, attempt_number,
                   submissions, failures, request, upstream, caught, outcome>>

(***************************************************************************)
(* CompletionsRepo.complete: defaults and token budget                     *)
(***************************************************************************)
\* tokenizer.encode: one token per character
encode(text) == [i \in 1..Len(text) |-> "tok"]

ComputeMaxTokens_clamped(self_max_tokens, context_limit, length) ==
    IF context_limit - length < 0 THEN 0 ELSE Min(self_max_tokens, context_limit - length)

\* max_tokens = min(self.max_tokens, self.context_limit - length)
ComputeMaxTokens(self_max_tokens, context_limit, length) ==
    Min(self_max_tokens, context_limit - length)

OrDefault(arg, default) == IF arg = None THEN default ELSE arg[1]

complete(prompt, system_prompt, examples, temperature) ==
    /\ pc = "ready"
    /\ args' = [prompt |-> prompt, system_prompt |-> system_prompt,
                examples |-> examples, temperature |-> temperature]
    /\ LET length == Len(encode(prompt)) IN
        locals' = [system_prompt |-> OrDefault(system_prompt, DefaultSystemPrompt),
                   examples |-> OrDefault(examples, <<>>),
                   temperature |-> OrDefault(temperature, repo.temperature),
                   length |-> length,
                   max_tokens |-> ComputeMaxTokens(repo.max_tokens, repo.context_limit, length)]
    /\ stack0' = sections_stack
    /\ attempt_number' = 1
    /\ pc' = "_complete"
    /\ UNCHANGED <<factoryArgs, repo, factoryError, sections_stack, updates, pubLog,
                   submissions, failures, request, upstream, caught, outcome>>

(***************************************************************************)
(* The two formatters: the request each attempt of _complete builds        *)
(***************************************************************************)
Message(role, content) == [role |-> role, content |-> content]

\* for example in examples: append the user and the assistant message
RECURSIVE AppendExampleMessages(_, _)
AppendExampleMessages(messages, examples) ==
    IF examples = <<>> THEN messages
    ELSE AppendExampleMessages(
            Append(Append(messages, Message("user", Head(examples)[1])),
                   Message("assistant", Head(examples)[2])),
            Tail(examples))

OpenAIChatCompletionsRepo_messages_promptFirst(prompt, system_prompt, examples) ==
    AppendExampleMessages(<<Message("system", system_prompt), Message("user", prompt)>>,
                          examples)

OpenAIChatCompletionsRepo_messages(prompt, system_prompt, examples) ==
    Append(AppendExampleMessages(<<Message("system", system_prompt)>>, examples),
           Message("user", prompt))

\* for example in examples: prompt += "\n\n{example[0]}\n{example[1]}"
RECURSIVE AppendExampleText(_, _)
AppendExampleText(prompt, examples) ==
    IF examples = <<>> THEN prompt
    ELSE AppendExampleText(
            prompt \o "\n\n" \o Head(examples)[1] \o "\n" \o Head(examples)[2],
            Tail(examples))

OpenAICompletionsRepo_prompt_callerPrompt(prompt, system_prompt, examples) ==
    AppendExampleText(system_prompt, examples) \o "\n\n" \o prompt

\* the parameter prompt is overwritten by system_prompt before it is read
OpenAICompletionsRepo_prompt(prompt, system_prompt, examples) ==
    LET prompt1 == AppendExampleText(system_prompt, examples)
    IN  prompt1 \o "\n\n" \o prompt1

BuildRequest ==
    IF repo.variant = "OpenAIChatCompletionsRepo"
    THEN [endpoint |-> "chat", model |-> repo.model,
          messages |-> OpenAIChatCompletionsRepo_messages(
                           args.prompt, locals.system_prompt, locals.examples),
          prompt |-> "",
          temperature |-> locals.temperature, max_tokens |-> locals.max_tokens]
    ELSE [endpoint |-> "text", model |-> repo.model,
          messages |-> <<>>,
          prompt |-> OpenAICompletionsRepo_prompt(
                         args.prompt, locals.system_prompt, locals.examples),
          temperature |-> locals.temperature, max_tokens |-> locals.max_tokens]

(***************************************************************************)
(* Upstream responses and the extraction of the text                       *)
(***************************************************************************)
NotADict == [repr |-> "None"]

Responses ==
    { [pytype |-> "NoneType", value |-> NotADict],
      [pytype |-> "str", value |-> NotADict],
      [pytype |-> "dict", value |-> [id |-> "cmpl-1"]],
      [pytype |-> "dict", value |-> [choices |-> <<>>]],
      [pytype |-> "dict", value |-> [choices |-> <<[message |-> [content |-> "chat text"]]>>]],
      [pytype |-> "dict", value |-> [choices |-> <<[text |-> "raw text"]>>]] }

Returned(text) == [ok |-> TRUE, val |-> text, exc |-> NoException]
Raised(exc) == [ok |-> FALSE, val |-> "", exc |-> exc]

\* openai_response["choices"][0][field], a KeyError or IndexError where an
\* index is missing
FirstChoice(response, field, id) ==
    IF "choices" \notin DOMAIN response.value
    THEN Raised(Exc("KeyError", <<"choices">>, id))
    ELSE IF Len(response.value.choices) = 0
    THEN Raised(Exc("IndexError", <<"list", "index", "out", "of", "range">>, id))
    ELSE IF field \notin DOMAIN response.value.choices[1]
    THEN Raised(Exc("KeyError", <<field>>, id))
    ELSE Returned(response.value.choices[1][field])

InvalidResponse(response) ==
    response.pytype = "NoneType" \/ response.pytype # "dict"

\* the part of OpenAIChatCompletionsRepo._complete after the submission
OpenAIChatCompletionsRepo_result(response, id) ==
    IF InvalidResponse(response) THEN Returned("")
    ELSE LET choice == FirstChoice(response, "message", id) IN
         IF ~choice.ok THEN choice
         ELSE IF "content" \notin DOMAIN choice.val
         THEN Raised(Exc("KeyError", <<"content">>, id))
         ELSE Returned(choice.val.content)

\* the part of OpenAICompletionsRepo._complete after the submission
OpenAICompletionsRepo_result(response, id) ==
    IF InvalidResponse(response) THEN Returned("")
    ELSE FirstChoice(response, "text", id)

(***************************************************************************)
(* The retry policy and the except clause of complete                      *)
(***************************************************************************)
stop_after_attempt_late(n) == n >= StopAfterAttempt + 1

\* stop=stop_after_attempt(8)
stop_after_attempt(n) == n >= StopAfterAttempt

RetryError_reraise(last) == last

\* tenacity with the default reraise=False: a RetryError holding the last attempt
RetryError(last) == [cls |-> "RetryError", msg |-> <<>>, id |-> 0, wraps |-> <<last>>]

\* except openai.error.InvalidRequestError as e, with the test of its message
IsInvalidRequest(e) == e.cls = "InvalidRequestError"

MentionsMissingGpt4_broad(e) == Contains(<<"does", "not", "exist">>, e.msg)

\* "'gpt-4' does not exist" in str(e)
MentionsMissingGpt4(e) == Contains(Gpt4DoesNotExist, e.msg)

\* an exception leaves self._complete: the except clause of complete
ExceptionInComplete(e) ==
    IF IsInvalidRequest(e) /\ MentionsMissingGpt4(e)
    THEN \* the warning is published before e is raised again
         /\ caught' = e
         /\ pc' = "warn"
         /\ UNCHANGED outcome
    ELSE \* raise e, or an exception the except clause does not catch
         /\ outcome' = [kind |-> "raise", value |-> "", exc |-> e]
         /\ pc' = "done"
         /\ UNCHANGED caught

\* one attempt of the retrying _complete ended with result
AfterAttempt(result) ==
    IF result.ok
    THEN /\ outcome' = [kind |-> "return", value |-> result.val, exc |-> NoException]
         /\ pc' = "done"
         /\ UNCHANGED <<attempt_number, caught>>
    ELSE IF openai_retry_if_union(result.exc)
    THEN IF stop_after_attempt(attempt_number)
         THEN /\ ExceptionInComplete(RetryError(result.exc))
              /\ UNCHANGED attempt_number
         ELSE /\ attempt_number' = attempt_number + 1
              /\ UNCHANGED <<pc, caught, outcome>>
    ELSE /\ ExceptionInComplete(result.exc)
         /\ UNCHANGED attempt_number

\* an attempt whose submission raises e
AttemptRaises(e) ==
    /\ pc = "_complete"
    /\ LET exc == Exc(e.cls, e.msg, submissions + 1) IN
        /\ request' = BuildRequest
        /\ submissions' = submissions + 1
        /\ upstream' = [kind |-> "error", err |-> exc, resp |-> NoUpstream.resp]
        /\ failures' = IF openai_retry_if_union(exc) THEN failures + 1 ELSE failures
        /\ AfterAttempt(Raised(exc))
    /\ UNCHANGED <<factoryArgs, repo, factoryError, sections_stack, updates, pubLog,
                   stack0, args, locals>>

\* an attempt whose submission returns response
AttemptResponds(response) ==
    /\ pc = "_complete"
    /\ request' = BuildRequest
    /\ submissions' = submissions + 1
    /\ upstream' = [kind |-> "response", err |-> NoException, resp |-> response]
    /\ AfterAttempt(IF repo.variant = "OpenAIChatCompletionsRepo"
                    THEN OpenAIChatCompletionsRepo_result(response, submissions + 1)
                    ELSE OpenAICompletionsRepo_result(response, submissions + 1))
    /\ UNCHANGED <<factoryArgs, repo, factoryError, sections_stack, updates, pubLog,
                   stack0, args, locals, failures>>

(***************************************************************************)
(* The model-access warning                                                *)
(***************************************************************************)
\* publish_service.end_section: pops the innermost section
end_section(stack) == SubSeq(stack, 1, Len(stack) - 1)

SectionsOpen_toEmpty(stack) == Len(stack) > 0

\* while len(self.publish_service.sections_stack) > 1
SectionsOpen(stack) == Len(stack) > 1

WarningText == "Your OpenAI API key does not have access to the gpt-4 model."

EndSection ==
    /\ pc = "warn"
    /\ SectionsOpen(sections_stack)
    /\ sections_stack' = end_section(sections_stack)
    /\ pubLog' = Append(pubLog, "end_section")
    /\ UNCHANGED <<pc, factoryArgs, repo, factoryError, updates, stack0, args, locals,
                   attempt_number, submissions, failures, request, upstream, caught, outcome>>

PublishWarning ==
    /\ pc = "warn"
    /\ ~SectionsOpen(sections_stack)
    /\ updates' = Append(updates, WarningText)
    /\ pubLog' = Append(pubLog, "publish_update")
    /\ pc' = "reraise"
    /\ UNCHANGED <<factoryArgs, repo, factoryError, sections_stack, stack0, args, locals,
                   attempt_number, submissions, failures, request, upstream, caught, outcome>>

Reraise ==
    /\ pc = "reraise"
    /\ outcome' = [kind |-> "raise", value |-> "", exc |-> caught]
    /\ pc' = "done"
    /\ UNCHANGED <<factoryArgs, repo, factoryError, sections_stack, updates, pubLog, stack0,
                   args, locals, attempt_number, submissions, failures, request, upstream,
                   caught>>

Next ==
    \/ \E model \in ModelNames, max_tokens \in 1..MaxCfgTokens, context_limit \in 1..MaxContextLimit :
          get_completions_repo(model, max_tokens, DefaultMinTokens, context_limit, DefaultTemperature)
    \/ \E prompt \in Prompts, system_prompt \in SystemPrompts, examples \in ExampleArgs,
          temperature \in TemperatureArgs :
          complete(prompt, system_prompt, examples, temperature)
    \/ \E e \in UpstreamErrors : AttemptRaises(e)
    \/ \E response \in Responses : AttemptResponds(response)
    \/ EndSection
    \/ PublishWarning
    \/ Reraise

Spec == Init /\ [][Next]_vars

(***************************************************************************)
(* Properties                                                              *)
(***************************************************************************)
RetryableError(e) ==
    e.cls \in {"Timeout", "APIError", "APIConnectionError", "RateLimitError",
               "ServiceUnavailableError"}

ModelAccessError(e) == e.cls = "InvalidRequestError" /\ e.msg = ModelMissingMsg

\* the well-formed response of each endpoint and the text it carries
ChatSuccess == [pytype |-> "dict", value |-> [choices |-> <<[message |-> [content |-> "chat text"]]>>]]
TextSuccess == [pytype |-> "dict", value |-> [choices |-> <<[text |-> "raw text"]>>]]

SucceededWith ==
    IF upstream.kind # "response" THEN None
    ELSE IF repo.variant = "OpenAIChatCompletionsRepo" /\ upstream.resp = ChatSuccess
    THEN Some("chat text")
    ELSE IF repo.variant = "OpenAICompletionsRepo" /\ upstream.resp = TextSuccess
    THEN Some("raw text")
    ELSE None

\* C1: when the upstream raises retryable errors on the first k <= 7 attempts
\* and then succeeds, complete returns the text of the successful attempt
\* after exactly k+1 submissions; no call submits more than 8 times.
RetryThenSuccess ==
    /\ submissions <= 8
    /\ SucceededWith # None =>
          /\ pc = "done"
          /\ outcome = [kind |-> "return", value |-> SucceededWith[1], exc |-> NoException]
          /\ failures <= 7
          /\ submissions = failures + 1

RetryThenSuccessWitness ==
    /\ SucceededWith # None
    /\ failures = 7
    /\ outcome.kind = "return"

\* C2 as stated: after 8 consecutive retryable failures the caller receives
\* the 8th upstream error itself, not a wrapping error.
LastErrorReachesCaller ==
    (pc = "done" /\ failures = 8) =>
        outcome = [kind |-> "raise", value |-> "", exc |-> upstream.err]

\* C2 amended: after 8 consecutive retryable failures the retry gives up and
\* the caller receives a RetryError that holds the 8th upstream error as its
\* last attempt; the upstream error itself is not what is raised.
RetryErrorWrapsLastError ==
    failures = 8 =>
        /\ pc = "done"
        /\ submissions = 8
        /\ upstream.kind = "error"
        /\ RetryableError(upstream.err)
        /\ upstream.err.id = 8
        /\ outcome.kind = "raise"
        /\ outcome.exc.cls = "RetryError"
        /\ outcome.exc.wraps = <<upstream.err>>
        /\ outcome.exc # upstream.err

RetryExhaustedWitness ==
    /\ pc = "done"
    /\ failures = 8
    /\ outcome.kind = "raise"

RECURSIVE Repeat(_, _)
Repeat(x, n) == IF n = 0 THEN <<>> ELSE Append(Repeat(x, n - 1), x)

\* C3: on the model-access error, with a section stack of depth >= 1, the
\* stack is drained by end_section to depth exactly 1, then exactly one
\* warning is published, then the same error is raised again; the warning
\* is never published before the stack is drained and the error is never
\* swallowed.
ModelAccessWarning ==
    (upstream.kind = "error" /\ ModelAccessError(upstream.err) /\ Len(stack0) >= 1) =>
        /\ pc \in {"warn", "reraise", "done"}
        /\ caught = upstream.err
        /\ pc = "warn" =>
              /\ \E n \in 0..(Len(stack0) - 1) :
                    /\ pubLog = Repeat("end_section", n)
                    /\ Len(sections_stack) = Len(stack0) - n
              /\ updates = <<>>
              /\ outcome = NoOutcome
        /\ pc \in {"reraise", "done"} =>
              /\ pubLog = Repeat("end_section", Len(stack0) - 1) \o <<"publish_update">>
              /\ Len(sections_stack) = 1
              /\ Len(updates) = 1
        /\ pc = "reraise" => outcome = NoOutcome
        /\ pc = "done" => outcome = [kind |-> "raise", value |-> "", exc |-> upstream.err]

ModelAccessWarningWitness ==
    /\ pc = "done"
    /\ upstream.kind = "error"
    /\ ModelAccessError(upstream.err)
    /\ Len(stack0) >= 2
    /\ failures >= 1
    /\ Len(updates) = 1

MalformedResponse(response) ==
    \/ response.pytype # "dict"
    \/ "choices" \notin DOMAIN response.value

\* C5 as stated: whenever the upstream returns a malformed response (absent,
\* not a mapping, or a mapping without "choices"), complete returns the
\* empty string and raises nothing, without retrying.
MalformedGivesEmptyText ==
    (upstream.kind = "response" /\ MalformedResponse(upstream.resp)) =>
        /\ pc = "done"
        /\ outcome = [kind |-> "return", value |-> "", exc |-> NoException]

TokenCount(text) == Len(encode(text))

ExpectedMaxTokens ==
    LET room == repo.context_limit - TokenCount(args.prompt) IN
    IF repo.max_tokens <= room THEN repo.max_tokens ELSE room

\* C6: the max_tokens of every submission of a call, retries included, is
\* min(configured max_tokens, context_limit - tokenCount(prompt)) for the
\* caller's prompt; a negative value is passed on unchanged and no error is
\* raised before the submission.
MaxTokensBudget ==
    /\ pc \in {"_complete", "warn", "reraise", "done"} =>
          locals.max_tokens = ExpectedMaxTokens
    /\ request # NoRequest =>
          /\ request.max_tokens = ExpectedMaxTokens
          /\ submissions >= 1
    /\ outcome.kind = "raise" => request # NoRequest

MaxTokensBudgetWitness ==
    /\ request # NoRequest
    /\ request.max_tokens < 0
    /\ TokenCount(args.prompt) > repo.context_limit
    /\ submissions >= 2

Reverse(s) == [i \in 1..Len(s) |-> s[Len(s) + 1 - i]]

\* C7: get_completions_repo returns, for a model in a variant's model list,
\* an instance of exactly that variant with the supplied configuration
\* (gpt-4 and gpt-3.5-turbo: chat; text-davinci-003: raw text); for any
\* other model it fails with an error naming the model and constructs
\* nothing; the model lists are disjoint, so search order does not matter.
FactorySelectsVariant ==
    pc # "start" =>
        LET m == factoryArgs.model
            built(v) == /\ pc # "config_error"
                        /\ factoryError = NoException
                        /\ repo = [variant |-> v, model |-> m,
                                   max_tokens |-> factoryArgs.max_tokens,
                                   min_tokens |-> factoryArgs.min_tokens,
                                   context_limit |-> factoryArgs.context_limit,
                                   temperature |-> factoryArgs.temperature]
        IN  /\ m \in {"gpt-4", "gpt-3.5-turbo"} => built("OpenAIChatCompletionsRepo")
            /\ m = "text-davinci-003" => built("OpenAICompletionsRepo")
            /\ m \notin {"gpt-4", "gpt-3.5-turbo", "text-davinci-003"} =>
                  /\ pc = "config_error"
                  /\ repo = NoRepo
                  /\ factoryError.cls = "ValueError"
                  /\ factoryError.msg = <<"Model " \o m \o " not implemented">>
            /\ \A i, j \in 1..Len(repo_implementations) :
                  i # j => Range(repo_implementations[i].models)
                             \cap Range(repo_implementations[j].models) = {}
            /\ FindImplementation(m, Reverse(repo_implementations)) = repo.variant

FactoryWitness ==
    /\ pc = "ready"
    /\ factoryArgs.model = "gpt-3.5-turbo"
    /\ repo.variant = "OpenAIChatCompletionsRepo"

GivenSystemPrompt ==
    IF args.system_prompt = None THEN "You are a helpful assistant."
    ELSE args.system_prompt[1]

GivenExamples == IF args.examples = None THEN <<>> ELSE args.examples[1]

\* C8: the chat formatter submits exactly [system:s, user:a1, assistant:b1,
\* ..., user:an, assistant:bn, user:p], of length 2n+2, with s the default
\* system prompt when the caller gives none.
ChatMessageSequence ==
    request.endpoint = "chat" =>
        LET n == Len(GivenExamples)
            m == request.messages
        IN  /\ Len(m) = 2 * n + 2
            /\ m[1] = [role |-> "system", content |-> GivenSystemPrompt]
            /\ \A i \in 1..n :
                  /\ m[2 * i] = [role |-> "user", content |-> GivenExamples[i][1]]
                  /\ m[2 * i + 1] = [role |-> "assistant", content |-> GivenExamples[i][2]]
            /\ m[2 * n + 2] = [role |-> "user", content |-> args.prompt]

ChatMessageWitness ==
    /\ request.endpoint = "chat"
    /\ Len(GivenExamples) >= 2
    /\ args.system_prompt = None
    /\ args.prompt # ""

\* the computed prompt C: s, then per example a blank line and the lines ai, bi
RECURSIVE ComputedPrompt(_, _)
ComputedPrompt(s, examples) ==
    IF Len(examples) = 0 THEN s
    ELSE ComputedPrompt(s, SubSeq(examples, 1, Len(examples) - 1))
            \o "\n\n" \o examples[Len(examples)][1]
            \o "\n" \o examples[Len(examples)][2]

\* C9: the raw-text formatter submits C, a blank-line separator and a second
\* copy of C, C being the computed prompt of s and the examples in order.
RawTextDuplicates ==
    request.endpoint = "text" =>
        LET C == ComputedPrompt(GivenSystemPrompt, GivenExamples)
        IN  request.prompt = C \o "\n\n" \o C

RawTextWitness ==
    /\ request.endpoint = "text"
    /\ Len(GivenExamples) >= 2
    /\ args.prompt # ""
    /\ args.system_prompt # None

\* C10 as stated: the max_tokens handed to a formatter submission is never
\* negative.
MaxTokensNeverNegative ==
    /\ pc = "_complete" => locals.max_tokens >= 0
    /\ request # NoRequest => request.max_tokens >= 0
====
